---- MODULE Spec2Model ----
(***************************************************************************)
(* Account forms of the demo store: AccountLoginForm (two-stage login),    *)
(* AccountPasswordResetForm and AccountDetailsEdit, with their remote call *)
(* adapters and the PATCH /account route handler.                          *)
(*                                                                         *)
(* A text value is a sequence of one-character strings.  An error slot     *)
(* holds NULL or a message.  One form is mounted per behaviour (page); a   *)
(* navigation or close() tears it down (page = "account").                 *)
(***************************************************************************)
EXTENDS Integers, Sequences, FiniteSets, TLC

\* ---------------------------------------------------------------- bounds
\* Fetch calls in flight at one time.
MaxInFlight == 2

\* Products in one best-sellers response.
MaxProducts == 3

\* ------------------------------------------------------------- constants
\* minLength={8} of every password input.
MinLength == 8

\* Skeleton entries of Loading.
SkeletonCount == 4

NULL == "null"

\* JavaScript truthiness of a string-or-null value.
Truthy(x) == x # NULL /\ x # ""

\* ------------------------------------------------------------ text values
Empty == << >>
Short == <<"a", "b", "c">>
P8a == [i \in 1..MinLength |-> "a"]
P8b == [i \in 1..MinLength |-> "b"]

Emails == {Empty, <<"a">>, <<"a", "@">>, <<"a", "@", "b">>, <<"b", "@", "a">>}
Passwords == {Empty, Short, P8a, P8b}
EditPasswords == {Empty, Short, P8a}
EditConfirmations == {Empty, P8a}
EditEmails == {Empty, <<"a">>, <<"a", "@", "b">>}
Names == {Empty, <<"A">>}

\* <input type="email" required>.validity.valid: a value is present and has
\* one "@" with a non-empty local part and a non-empty domain.
EmailValidityValid(v) ==
    /\ Len(v) > 0
    /\ \E i \in 1..Len(v) :
          /\ v[i] = "@"
          /\ i > 1
          /\ i < Len(v)
          /\ \A j \in 1..Len(v) : j # i => v[j] # "@"

\* <input type="password" required minLength={8}>.validity of a typed value.
ValueMissing(v) == Len(v) = 0
TooShort(v) == Len(v) > 0 /\ Len(v) < MinLength
PasswordValidityValid(v) == ~ValueMissing(v) /\ ~TooShort(v)

\* ------------------------------------------------------------------ state
VARIABLES
    page,      \* the mounted form: "login", "reset", "edit"; "account" after
    login,     \* useState slots of AccountLoginForm
    reset,     \* useState slots of AccountPasswordResetForm
    edit,      \* useState slots of AccountDetailsEdit and its Password inputs
    net,       \* fetch calls in flight, in issue order
    nav,       \* navigate('/account') calls made
    rendered,  \* renderServerComponents() calls made
    closed,    \* close() calls made
    escaped,   \* rejections that left a submit handler unhandled
    lastOp,    \* the handler that ran last (and the adapter result it got)
    cart,      \* the best-sellers section of CartEmpty
    served     \* the request the /account api handler served, and what it did

vars == <<page, login, reset, edit, net, nav, rendered, closed, escaped, lastOp,
          cart, served>>

\* --------------------------------------------------- HTTP and the adapters
\* A fetch outcome: the transport failed, or a response arrived.  A response
\* body either parses as JSON {error} or does not parse (null or plain text).
TransportFailure == [failed |-> TRUE, status |-> 0, json |-> FALSE, error |-> NULL]
HttpResponse(status, json, error) ==
    [failed |-> FALSE, status |-> status, json |-> json, error |-> error]

ResOk(o) == o.status >= 200 /\ o.status <= 299

\* The adapter of an endpoint: {} on res.ok, res.json() otherwise, the catch
\* value when fetch itself rejects.  "return res.json()" is not awaited inside
\* the try, so its rejection is the adapter's rejection.
AdapterResult(o, catchMessage) ==
    IF o.failed THEN [threw |-> FALSE, error |-> catchMessage]
    ELSE IF ResOk(o) THEN [threw |-> FALSE, error |-> NULL]
    ELSE IF o.json THEN [threw |-> FALSE, error |-> o.error]
    ELSE [threw |-> TRUE, error |-> NULL]

callLoginApi(o) == AdapterResult(o, "TypeError: Failed to fetch")

callPasswordResetApi(o) == AdapterResult(o, "TypeError: Failed to fetch")

callAccountUpdateApi(o) == AdapterResult(o, "Error saving account. Please try again.")

\* POST /account/login and POST /account/reset: {} on success, {error} on
\* failure.
AccountRouteOutcomes ==
    { TransportFailure,
      HttpResponse(200, FALSE, NULL),
      HttpResponse(401, TRUE, "Incorrect email or password.") }

\* The request bodies the /account handler is given.
ApiBodies ==
    [email : {Empty, <<"a", "@", "b">>}, phone : Names, firstName : Names,
     lastName : Names, currentPassword : {Empty, P8a}, newPassword : {Empty, P8a}]

EmptyBody ==
    [email |-> Empty, phone |-> Empty, firstName |-> Empty, lastName |-> Empty,
     currentPassword |-> Empty, newPassword |-> Empty]

ApiMethods == {"GET", "POST", "PATCH", "DELETE"}

\* What the handler reads for each field of the customer update.
CustomerValue(body, f) == IF f = "password" THEN body.newPassword ELSE body[f]

CustomerFields == {"email", "phone", "firstName", "lastName", "password"}

Customer_PasswordNeedsCurrent(body) ==
    [f \in {g \in CustomerFields :
              /\ CustomerValue(body, g) # Empty
              /\ g = "password" => body.currentPassword # Empty}
        |-> CustomerValue(body, f)]

\* const customer: Customer = {}; if (email) customer.email = email; ...
Customer(body) ==
    [f \in {g \in CustomerFields : CustomerValue(body, g) # Empty}
        |-> CustomerValue(body, f)]

Rejected(status, allow) ==
    [response |-> HttpResponse(status, FALSE, NULL), allow |-> allow,
     bodyRead |-> FALSE, mutations |-> << >>]

apiRun_NoTokenCheck(request, sessionAvailable, customerAccessToken, error) ==
    IF request.method # "PATCH" /\ request.method # "DELETE"
    THEN Rejected(405, "PATCH,DELETE")
    ELSE IF ~sessionAvailable THEN Rejected(400, NULL)
    ELSE [response |-> IF Truthy(error) THEN HttpResponse(400, TRUE, error)
                       ELSE HttpResponse(200, FALSE, NULL),
          allow |-> NULL,
          bodyRead |-> TRUE,
          mutations |-> << [customer |-> Customer(request.body),
                            customerAccessToken |-> customerAccessToken] >>]

\* One run of the api route handler: its response, its Allow header, whether
\* it read the request body, and the customerUpdate mutations it sent.
apiRun(request, sessionAvailable, customerAccessToken, error) ==
    IF request.method # "PATCH" /\ request.method # "DELETE"
    THEN Rejected(405, "PATCH,DELETE")
    ELSE IF ~sessionAvailable THEN Rejected(400, NULL)
    ELSE IF ~customerAccessToken THEN Rejected(401, NULL)
    ELSE [response |-> IF Truthy(error) THEN HttpResponse(400, TRUE, error)
                       ELSE HttpResponse(200, FALSE, NULL),
          allow |-> NULL,
          bodyRead |-> TRUE,
          mutations |-> << [customer |-> Customer(request.body),
                            customerAccessToken |-> customerAccessToken] >>]

\* PATCH /account: the response of the api route handler.
api(method, sessionAvailable, customerAccessToken, error) ==
    apiRun([method |-> method, body |-> EmptyBody],
           sessionAvailable, customerAccessToken, error).response

BackendErrors == {NULL, "Email has already been taken"}

AccountUpdateOutcomes(method) ==
    {TransportFailure} \cup
    { api(method, s, t, e) : s \in BOOLEAN, t \in BOOLEAN, e \in BackendErrors }

InFlight(form) == Len(SelectSeq(net, LAMBDA c : c.form = form))

RemoveAt(s, i) == [j \in 1..(Len(s) - 1) |-> IF j < i THEN s[j] ELSE s[j + 1]]

\* -------------------------------------------------------- AccountLoginForm
LoginInit ==
    [hasSubmitError |-> FALSE, showEmailField |-> TRUE, email |-> Empty,
     emailError |-> NULL, password |-> Empty, passwordError |-> NULL]

checkEmail_AlwaysAdvances(s) ==
    [s EXCEPT !.showEmailField = FALSE]

checkEmail_MissingMessage(s) ==
    IF EmailValidityValid(s.email)
    THEN [s EXCEPT !.showEmailField = FALSE]
    ELSE [s EXCEPT !.emailError =
            IF Len(s.email) = 0 THEN "Please enter an email"
            ELSE "Please enter a valid email"]

checkEmail(s) ==
    IF EmailValidityValid(s.email)
    THEN [s EXCEPT !.showEmailField = FALSE]
    ELSE [s EXCEPT !.emailError = "Please enter a valid email"]

\* The else branch of checkPassword.
checkPasswordError(v) ==
    IF ValueMissing(v) THEN "Please enter a password"
    ELSE "Passwords must be at least 6 characters"

LoginBody_NoPassword(s) == [email |-> s.email, password |-> Empty]

\* The argument checkPassword hands to callLoginApi.
LoginBody(s) == [email |-> s.email, password |-> s.password]

resetForm_KeepsEmail(s) ==
    [s EXCEPT !.showEmailField = TRUE, !.emailError = NULL,
              !.password = Empty, !.passwordError = NULL]

resetForm(s) ==
    [s EXCEPT !.showEmailField = TRUE, !.email = Empty, !.emailError = NULL,
              !.password = Empty, !.passwordError = NULL]

LoginSetEmail_AnyStage(v) ==
    /\ page = "login"
    /\ login' = [login EXCEPT !.email = v]
    /\ lastOp' = [op |-> "onChange"]
    /\ UNCHANGED <<page, reset, edit, net, nav, rendered, closed, escaped>>
    /\ UNCHANGED <<cart, served>>

LoginSetEmail(v) ==
    /\ page = "login"
    /\ login.showEmailField
    /\ login' = [login EXCEPT !.email = v]
    /\ lastOp' = [op |-> "onChange"]
    /\ UNCHANGED <<page, reset, edit, net, nav, rendered, closed, escaped>>
    /\ UNCHANGED <<cart, served>>

LoginSetPassword(v) ==
    /\ page = "login"
    /\ ~login.showEmailField
    /\ login' = [login EXCEPT !.password = v]
    /\ lastOp' = [op |-> "onChange"]
    /\ UNCHANGED <<page, reset, edit, net, nav, rendered, closed, escaped>>
    /\ UNCHANGED <<cart, served>>

\* Does this submit reach callLoginApi?
LoginSubmitCalls(s) == ~s.showEmailField /\ PasswordValidityValid(s.password)

LoginSubmit ==
    /\ page = "login"
    /\ LoginSubmitCalls(login) => Len(net) < MaxInFlight
    /\ LET cleared == [login EXCEPT !.emailError = NULL,
                                    !.hasSubmitError = FALSE,
                                    !.passwordError = NULL]
       IN IF login.showEmailField
          THEN /\ login' = checkEmail(cleared)
               /\ UNCHANGED net
          ELSE IF LoginSubmitCalls(login)
          THEN /\ login' = cleared
               /\ net' = Append(net, [form |-> "login", method |-> "POST",
                                      path |-> "/account/login",
                                      body |-> LoginBody(login)])
          ELSE /\ login' = [cleared EXCEPT
                              !.passwordError = checkPasswordError(login.password)]
               /\ UNCHANGED net
    /\ lastOp' = [op |-> "LoginSubmit"]
    /\ UNCHANGED <<page, reset, edit, nav, rendered, closed, escaped>>
    /\ UNCHANGED <<cart, served>>

\* "Change email" of ValidEmail.
LoginChangeEmail ==
    /\ page = "login"
    /\ ~login.showEmailField
    /\ login' = resetForm(login)
    /\ lastOp' = [op |-> "LoginChangeEmail"]
    /\ UNCHANGED <<page, reset, edit, net, nav, rendered, closed, escaped>>
    /\ UNCHANGED <<cart, served>>

\* The continuation of checkPassword after "await callLoginApi".  State
\* setters of a torn-down component have no effect.
LoginResponse(i, o) ==
    /\ net[i].form = "login"
    /\ net' = RemoveAt(net, i)
    /\ LET response == callLoginApi(o)
       IN IF response.threw
          THEN /\ escaped' = escaped + 1
               /\ lastOp' = [op |-> "LoginResponse", response |-> response]
               /\ UNCHANGED <<page, login, nav>>
          ELSE IF Truthy(response.error)
          THEN /\ login' = IF page = "login"
                           THEN resetForm([login EXCEPT !.hasSubmitError = TRUE])
                           ELSE login
               /\ lastOp' = [op |-> "LoginResponse", response |-> response]
               /\ UNCHANGED <<page, nav, escaped>>
          ELSE /\ nav' = nav + 1
               /\ page' = "account"
               /\ lastOp' = [op |-> "LoginResponse", response |-> response]
               /\ UNCHANGED <<login, escaped>>
    /\ UNCHANGED <<reset, edit, rendered, closed>>
    /\ UNCHANGED <<cart, served>>

\* ------------------------------------------------ AccountPasswordResetForm
ResetProps == [id |-> <<"i", "d">>, resetToken |-> <<"t">>]

ResetInit ==
    [submitError |-> NULL, password |-> Empty, passwordError |-> NULL,
     passwordConfirm |-> Empty, passwordConfirmError |-> NULL]

ResetPasswordValidation_NoMismatchFlag(s) ==
    LET pwInvalid == ~PasswordValidityValid(s.password)
        confirmInvalid == ~PasswordValidityValid(s.passwordConfirm)
        mismatch == s.password # s.passwordConfirm
    IN [hasError |-> pwInvalid \/ confirmInvalid,
        passwordError |->
            IF pwInvalid
            THEN (IF ValueMissing(s.password) THEN "Please enter a password"
                  ELSE "Passwords must be at least 6 characters")
            ELSE NULL,
        passwordConfirmError |->
            IF mismatch THEN "The two password entered did not match."
            ELSE IF confirmInvalid
            THEN (IF ValueMissing(s.password) THEN "Please re-enter a password"
                  ELSE "Passwords must be at least 6 characters")
            ELSE NULL]

\* The form's own passwordValidation: the two error slots as it leaves them
\* and the flag it returns.
ResetPasswordValidation(s) ==
    LET pwInvalid == ~PasswordValidityValid(s.password)
        confirmInvalid == ~PasswordValidityValid(s.passwordConfirm)
        mismatch == s.password # s.passwordConfirm
    IN [hasError |-> pwInvalid \/ confirmInvalid \/ mismatch,
        passwordError |->
            IF pwInvalid
            THEN (IF ValueMissing(s.password) THEN "Please enter a password"
                  ELSE "Passwords must be at least 6 characters")
            ELSE NULL,
        passwordConfirmError |->
            IF mismatch THEN "The two password entered did not match."
            ELSE IF confirmInvalid
            THEN (IF ValueMissing(s.password) THEN "Please re-enter a password"
                  ELSE "Passwords must be at least 6 characters")
            ELSE NULL]

\* The argument onSubmit hands to callPasswordResetApi.
ResetBody(s) ==
    [id |-> ResetProps.id, resetToken |-> ResetProps.resetToken,
     password |-> s.password]

ResetSetPassword(v) ==
    /\ page = "reset"
    /\ reset' = [reset EXCEPT !.password = v]
    /\ lastOp' = [op |-> "onChange"]
    /\ UNCHANGED <<page, login, edit, net, nav, rendered, closed, escaped>>
    /\ UNCHANGED <<cart, served>>

ResetSetPasswordConfirm(v) ==
    /\ page = "reset"
    /\ reset' = [reset EXCEPT !.passwordConfirm = v]
    /\ lastOp' = [op |-> "onChange"]
    /\ UNCHANGED <<page, login, edit, net, nav, rendered, closed, escaped>>
    /\ UNCHANGED <<cart, served>>

ResetSubmit ==
    /\ page = "reset"
    /\ LET v == ResetPasswordValidation(reset)
       IN /\ ~v.hasError => Len(net) < MaxInFlight
          /\ reset' = [reset EXCEPT !.passwordError = v.passwordError,
                                    !.passwordConfirmError = v.passwordConfirmError]
          /\ IF v.hasError
             THEN UNCHANGED net
             ELSE /\ net' = Append(net, [form |-> "reset", method |-> "POST",
                                         path |-> "/account/reset",
                                         body |-> ResetBody(reset)])
    /\ lastOp' = [op |-> "ResetSubmit"]
    /\ UNCHANGED <<page, login, edit, nav, rendered, closed, escaped>>
    /\ UNCHANGED <<cart, served>>

\* The continuation of onSubmit after "await callPasswordResetApi".
ResetResponse(i, o) ==
    /\ net[i].form = "reset"
    /\ net' = RemoveAt(net, i)
    /\ LET response == callPasswordResetApi(o)
       IN IF response.threw
          THEN /\ escaped' = escaped + 1
               /\ lastOp' = [op |-> "ResetResponse", response |-> response]
               /\ UNCHANGED <<page, reset, nav>>
          ELSE IF Truthy(response.error)
          THEN /\ reset' = IF page = "reset"
                           THEN [reset EXCEPT !.submitError = response.error]
                           ELSE reset
               /\ lastOp' = [op |-> "ResetResponse", response |-> response]
               /\ UNCHANGED <<page, nav, escaped>>
          ELSE /\ nav' = nav + 1
               /\ page' = "account"
               /\ lastOp' = [op |-> "ResetResponse", response |-> response]
               /\ UNCHANGED <<reset, escaped>>
    /\ UNCHANGED <<login, edit, rendered, closed>>
    /\ UNCHANGED <<cart, served>>

\* ------------------------------------------------------ AccountDetailsEdit
EditInit ==
    [saving |-> FALSE, firstName |-> Empty, lastName |-> Empty, phone |-> Empty,
     email |-> Empty, emailError |-> NULL, currentPasswordError |-> NULL,
     newPasswordError |-> NULL, newPassword2Error |-> NULL, submitError |-> NULL,
     currentPassword |-> Empty, newPassword |-> Empty, newPassword2 |-> Empty]

\* ~/lib/utils
emailValidation(v) ==
    IF EmailValidityValid(v) THEN NULL ELSE "Please enter a valid email"

\* ~/lib/utils
passwordValidation(v) ==
    IF PasswordValidityValid(v) THEN NULL
    ELSE IF ValueMissing(v) THEN "Please enter a password"
    ELSE "Passwords must be at least 6 characters"

ValidatesPasswords_Always(s) == TRUE

\* "Only validate the password fields if the current password has a value".
ValidatesPasswords(s) == s.currentPassword # Empty

\* The four local errors onSubmit computes (NULL where it leaves one
\* undefined).
EditValidation(s) ==
    [emailError |-> emailValidation(s.email),
     currentPasswordError |->
         IF ValidatesPasswords(s) THEN passwordValidation(s.currentPassword)
         ELSE NULL,
     newPasswordError |->
         IF ValidatesPasswords(s) THEN passwordValidation(s.newPassword)
         ELSE NULL,
     newPassword2Error |->
         IF ValidatesPasswords(s) /\ s.newPassword # s.newPassword2
         THEN "The two passwords entered did not match"
         ELSE NULL]

EditHasError_IgnoresConfirmation(e) ==
    \/ Truthy(e.emailError)
    \/ Truthy(e.currentPasswordError)
    \/ Truthy(e.newPasswordError)

\* The early return of onSubmit.
EditHasError(e) ==
    \/ Truthy(e.emailError)
    \/ Truthy(e.currentPasswordError)
    \/ Truthy(e.newPasswordError)
    \/ Truthy(e.newPassword2Error)

\* The argument onSubmit hands to callAccountUpdateApi.
EditBody(s) ==
    [email |-> s.email, newPassword |-> s.newPassword,
     currentPassword |-> s.currentPassword, phone |-> s.phone,
     firstName |-> s.firstName, lastName |-> s.lastName]

EditFields == {"firstName", "lastName", "phone"}
PasswordInputs == {"currentPassword", "newPassword", "newPassword2"}
EditPasswordValues(name) ==
    IF name = "newPassword2" THEN EditConfirmations ELSE EditPasswords

\* onChange of the firstname, lastname and phone inputs.
EditSetName(field, v) ==
    /\ page = "edit"
    /\ edit' = [edit EXCEPT ![field] = v]
    /\ lastOp' = [op |-> "onChange"]
    /\ UNCHANGED <<page, login, reset, net, nav, rendered, closed, escaped>>
    /\ UNCHANGED <<cart, served>>

EditSetEmail(v) ==
    /\ page = "edit"
    /\ edit' = [edit EXCEPT !.email = v]
    /\ lastOp' = [op |-> "onChange"]
    /\ UNCHANGED <<page, login, reset, net, nav, rendered, closed, escaped>>
    /\ UNCHANGED <<cart, served>>

\* onChange of a Password input.
EditSetPassword(name, v) ==
    /\ page = "edit"
    /\ edit' = [edit EXCEPT ![name] = v]
    /\ lastOp' = [op |-> "onChange"]
    /\ UNCHANGED <<page, login, reset, net, nav, rendered, closed, escaped>>
    /\ UNCHANGED <<cart, served>>

\* The Save button is disabled while saving.
EditSubmit ==
    /\ page = "edit"
    /\ ~edit.saving
    /\ LET e == EditValidation(edit)
           shown == [edit EXCEPT !.emailError = e.emailError,
                                 !.currentPasswordError = e.currentPasswordError,
                                 !.newPasswordError = e.newPasswordError,
                                 !.newPassword2Error = e.newPassword2Error]
       IN /\ ~EditHasError(e) => Len(net) < MaxInFlight
          /\ IF EditHasError(e)
             THEN /\ edit' = shown
                  /\ UNCHANGED net
             ELSE /\ edit' = [shown EXCEPT !.saving = TRUE]
                  /\ net' = Append(net, [form |-> "edit", method |-> "PATCH",
                                         path |-> "/account",
                                         body |-> EditBody(edit)])
    /\ lastOp' = [op |-> "EditSubmit"]
    /\ UNCHANGED <<page, login, reset, nav, rendered, closed, escaped>>
    /\ UNCHANGED <<cart, served>>

\* The Cancel button: onClick={close}.
EditCancel ==
    /\ page = "edit"
    /\ closed' = closed + 1
    /\ page' = "account"
    /\ lastOp' = [op |-> "EditCancel"]
    /\ UNCHANGED <<login, reset, edit, net, nav, rendered, escaped>>
    /\ UNCHANGED <<cart, served>>

EditFailed_ClearsPasswords(s, error) ==
    [s EXCEPT !.saving = FALSE, !.submitError = error,
              !.currentPassword = Empty, !.newPassword = Empty,
              !.newPassword2 = Empty]

\* setSaving(false); setSubmitError(accountUpdateResponse.error).
EditFailed(s, error) ==
    [s EXCEPT !.saving = FALSE, !.submitError = error]

\* The continuation of onSubmit after "await callAccountUpdateApi".
EditResponse(i, o) ==
    /\ net[i].form = "edit"
    /\ net' = RemoveAt(net, i)
    /\ LET accountUpdateResponse == callAccountUpdateApi(o)
       IN IF accountUpdateResponse.threw
          THEN /\ escaped' = escaped + 1
               /\ lastOp' = [op |-> "EditResponse", response |-> accountUpdateResponse]
               /\ UNCHANGED <<page, edit, rendered, closed>>
          ELSE IF Truthy(accountUpdateResponse.error)
          THEN /\ edit' = IF page = "edit"
                          THEN EditFailed(edit, accountUpdateResponse.error)
                          ELSE edit
               /\ lastOp' = [op |-> "EditResponse", response |-> accountUpdateResponse]
               /\ UNCHANGED <<page, rendered, closed, escaped>>
          ELSE /\ edit' = IF page = "edit" THEN [edit EXCEPT !.saving = FALSE]
                          ELSE edit
               /\ rendered' = rendered + 1
               /\ closed' = closed + 1
               /\ page' = "account"
               /\ lastOp' = [op |-> "EditResponse", response |-> accountUpdateResponse]
               /\ UNCHANGED escaped
    /\ UNCHANGED <<login, reset, nav>>
    /\ UNCHANGED <<cart, served>>

\* ----------------------------------------------- CartEmpty / TopProducts
BestSellersUrl == "/api/bestSellers"

BestSellersStatuses == {200, 404, 500}

\* Product lists of a response: distinct product ids.
ProductLists ==
    { l \in UNION { [1..n -> 1..MaxProducts] : n \in 0..MaxProducts } :
        \A i, j \in 1..Len(l) : l[i] = l[j] => i = j }

Product(id) == [id |-> id]

\* Loading: the Suspense fallback.
Loading == [text |-> NULL, cards |-> << >>, skeletons |-> SkeletonCount]

CartInit == [phase |-> "pending", response |-> NULL, output |-> Loading, log |-> << >>]

TopProducts_SilentFailure(response) ==
    IF ~ResOk(response)
    THEN [output |-> [text |-> NULL, cards |-> << >>, skeletons |-> 0],
          log |-> << >>]
    ELSE IF Len(response.products) = 0
    THEN [output |-> [text |-> "No products found.", cards |-> << >>, skeletons |-> 0],
          log |-> << >>]
    ELSE [output |-> [text |-> NULL,
                      cards |-> [i \in 1..Len(response.products) |->
                                    [key |-> response.products[i].id,
                                     product |-> response.products[i]]],
                      skeletons |-> 0],
          log |-> << >>]

\* One render of TopProducts: what it returns and what it logs.
TopProducts(response) ==
    IF ~ResOk(response)
    THEN [output |-> [text |-> NULL, cards |-> << >>, skeletons |-> 0],
          log |-> << [message |-> "Unable to load top products",
                      url |-> response.url, status |-> response.status] >>]
    ELSE IF Len(response.products) = 0
    THEN [output |-> [text |-> "No products found.", cards |-> << >>, skeletons |-> 0],
          log |-> << >>]
    ELSE [output |-> [text |-> NULL,
                      cards |-> [i \in 1..Len(response.products) |->
                                    [key |-> response.products[i].id,
                                     product |-> response.products[i]]],
                      skeletons |-> 0],
          log |-> << >>]

\* fetchSync('/api/bestSellers') resolves and TopProducts renders.
TopProductsRender ==
    /\ page = "cart"
    /\ cart.phase = "pending"
    /\ \E status \in BestSellersStatuses : \E list \in ProductLists :
          LET response == [url |-> BestSellersUrl, status |-> status,
                           products |-> [i \in 1..Len(list) |-> Product(list[i])]]
              r == TopProducts(response)
          IN cart' = [phase |-> "rendered", response |-> response,
                      output |-> r.output, log |-> cart.log \o r.log]
    /\ lastOp' = [op |-> "TopProducts"]
    /\ UNCHANGED <<page, login, reset, edit, net, nav, rendered, closed, escaped, served>>

\* ------------------------------------------------------ /account api route
ServedInit == [phase |-> "idle"]

\* The api route handler serves one request.
ApiRequest ==
    /\ page = "api"
    /\ served.phase = "idle"
    /\ \E request \in [method : ApiMethods, body : ApiBodies] :
          \E sessionAvailable \in BOOLEAN : \E customerAccessToken \in BOOLEAN :
             \E error \in BackendErrors :
                LET run == apiRun(request, sessionAvailable, customerAccessToken, error)
                IN served' = [phase |-> "done", request |-> request,
                              sessionAvailable |-> sessionAvailable,
                              customerAccessToken |-> customerAccessToken,
                              response |-> run.response, allow |-> run.allow,
                              bodyRead |-> run.bodyRead,
                              mutations |-> run.mutations]
    /\ lastOp' = [op |-> "api"]
    /\ UNCHANGED <<page, login, reset, edit, net, nav, rendered, closed, escaped, cart>>

\* ---------------------------------------------------------- specification
Init ==
    /\ page \in {"login", "reset", "edit", "cart", "api"}
    /\ login = LoginInit
    /\ reset = ResetInit
    /\ edit = EditInit
    /\ net = << >>
    /\ nav = 0
    /\ rendered = 0
    /\ closed = 0
    /\ escaped = 0
    /\ lastOp = [op |-> "mount"]
    /\ cart = CartInit
    /\ served = ServedInit

Next ==
    \/ \E v \in Emails : LoginSetEmail(v)
    \/ \E v \in Passwords : LoginSetPassword(v)
    \/ LoginSubmit
    \/ LoginChangeEmail
    \/ \E i \in 1..Len(net) : \E o \in AccountRouteOutcomes : LoginResponse(i, o)
    \/ \E v \in Passwords : ResetSetPassword(v)
    \/ \E v \in Passwords : ResetSetPasswordConfirm(v)
    \/ ResetSubmit
    \/ \E i \in 1..Len(net) : \E o \in AccountRouteOutcomes : ResetResponse(i, o)
    \/ \E f \in EditFields : \E v \in Names : EditSetName(f, v)
    \/ \E v \in EditEmails : EditSetEmail(v)
    \/ \E n \in PasswordInputs : \E v \in EditPasswordValues(n) : EditSetPassword(n, v)
    \/ EditSubmit
    \/ EditCancel
    \/ \E i \in 1..Len(net) :
          \E o \in AccountUpdateOutcomes(net[i].method) : EditResponse(i, o)
    \/ TopProductsRender
    \/ ApiRequest

Spec == Init /\ [][Next]_vars

\* ------------------------------------------------------------- properties
Forms == {"login", "reset", "edit"}

MismatchEdit == "The two passwords entered did not match"
MismatchReset == "The two password entered did not match."
InvalidEmail == "Please enter a valid email"

LoginHasFieldError(s) == s.emailError # NULL \/ s.passwordError # NULL
ResetHasFieldError(s) == s.passwordError # NULL \/ s.passwordConfirmError # NULL
EditHasFieldError(s) ==
    \/ s.emailError # NULL
    \/ s.currentPasswordError # NULL
    \/ s.newPasswordError # NULL
    \/ s.newPassword2Error # NULL

\* C1: in each of the three forms, a submit whose validation left any field
\* error non-null issues no fetch call and does not set the busy flag.
C1_NoCallOnValidationError ==
    [][ /\ (lastOp'.op = "LoginSubmit" /\ LoginHasFieldError(login')) => net' = net
        /\ (lastOp'.op = "ResetSubmit" /\ ResetHasFieldError(reset')) => net' = net
        /\ (lastOp'.op = "EditSubmit" /\ EditHasFieldError(edit'))
              => (net' = net /\ ~edit'.saving) ]_vars

C1_Witness ==
    /\ lastOp.op = "EditSubmit"
    /\ edit.newPassword2Error = MismatchEdit
    /\ edit.emailError = NULL
    /\ edit.currentPasswordError = NULL
    /\ edit.newPasswordError = NULL
    /\ net = << >>

\* C2: no form instance ever has more than one fetch call in flight.
C2_AtMostOneInFlight == \A f \in Forms : InFlight(f) <= 1

\* C3: a login submit in the password stage with a valid password issues
\* exactly one POST /account/login whose body is the email and password held
\* by the form, and a response never issues another call.
C3_OneLoginCallWithCredentials ==
    [][ /\ (lastOp'.op = "LoginSubmit" /\ ~login.showEmailField
            /\ PasswordValidityValid(login.password))
              => /\ Len(net') = Len(net) + 1
                 /\ SubSeq(net', 1, Len(net)) = net
                 /\ net'[Len(net')] =
                      [form |-> "login", method |-> "POST", path |-> "/account/login",
                       body |-> [email |-> login.email, password |-> login.password]]
        /\ lastOp'.op = "LoginResponse" => Len(net') = Len(net) - 1 ]_vars

C3_Witness ==
    /\ lastOp.op = "LoginSubmit"
    /\ Len(net) = 1
    /\ net[1].body = [email |-> <<"b", "@", "a">>, password |-> P8b]
    /\ login.email = <<"b", "@", "a">>
    /\ login.password = P8b

\* C4: a login result without an error navigates to /account and leaves the
\* form's fields alone; a result with an error makes no navigation and leaves
\* the mounted form in the email stage, fields and field errors cleared, with
\* the sign-in failure banner on.
C4_LoginResultHandling ==
    [][ (lastOp'.op = "LoginResponse" /\ ~lastOp'.response.threw) =>
          IF Truthy(lastOp'.response.error)
          THEN /\ nav' = nav
               /\ page' = page
               /\ page = "login" =>
                    login' = [hasSubmitError |-> TRUE, showEmailField |-> TRUE,
                              email |-> Empty, emailError |-> NULL,
                              password |-> Empty, passwordError |-> NULL]
          ELSE /\ nav' = nav + 1
               /\ page' = "account"
               /\ login' = login ]_vars

C4_Witness ==
    /\ lastOp.op = "LoginResponse"
    /\ Truthy(lastOp.response.error)
    /\ page = "login"
    /\ login.hasSubmitError
    /\ login.showEmailField
    /\ login.email = Empty
    /\ nav = 0

\* C5: the password stage is entered only by a submit in the email stage
\* with a format-valid email; a login call is issued only by a submit in the
\* password stage; "Change email" returns to the email stage with password
\* and password error discarded.
C5_TwoStageFlow ==
    [][ /\ (login.showEmailField /\ ~login'.showEmailField)
              => /\ lastOp'.op = "LoginSubmit"
                 /\ EmailValidityValid(login.email)
                 /\ login'.email = login.email
        /\ InFlight("login")' > InFlight("login")
              => (lastOp'.op = "LoginSubmit" /\ ~login.showEmailField)
        /\ lastOp'.op = "LoginChangeEmail"
              => /\ ~login.showEmailField
                 /\ login'.showEmailField
                 /\ login'.password = Empty
                 /\ login'.passwordError = NULL ]_vars

C5_Witness ==
    /\ lastOp.op = "LoginChangeEmail"
    /\ login.showEmailField
    /\ login.password = Empty
    /\ Len(net) = 1

\* C6: an edit submit with currentPassword empty leaves the three password
\* errors null, whatever newPassword and newPassword2 hold.
C6_NoPasswordErrorsWithoutCurrent ==
    (lastOp.op = "EditSubmit" /\ edit.currentPassword = Empty)
        => /\ edit.currentPasswordError = NULL
           /\ edit.newPasswordError = NULL
           /\ edit.newPassword2Error = NULL

C6_Witness ==
    /\ lastOp.op = "EditSubmit"
    /\ edit.currentPassword = Empty
    /\ edit.newPassword = Short
    /\ edit.newPassword2 = P8a
    /\ edit.newPasswordError = NULL
    /\ edit.newPassword2Error = NULL

\* C7: a PATCH /account body issued with currentPassword empty has
\* newPassword empty too.
C7_NoPasswordSentWhenNotRequested ==
    \A i \in 1..Len(net) :
        (net[i].form = "edit" /\ net[i].body.currentPassword = Empty)
            => net[i].body.newPassword = Empty

\* C8 (as stated): every submit whose password and confirmation differ sets
\* the mismatch message on the confirmation field and issues no call, in the
\* reset form and in the edit form.
C8_MismatchAlwaysBlocks ==
    [][ /\ (lastOp'.op = "ResetSubmit" /\ reset.password # reset.passwordConfirm)
              => (net' = net /\ reset'.passwordConfirmError = MismatchReset)
        /\ (lastOp'.op = "EditSubmit" /\ edit.newPassword # edit.newPassword2)
              => (net' = net /\ edit'.newPassword2Error = MismatchEdit) ]_vars

\* C8 (amended): every reset submit whose password and confirmation differ,
\* and every edit submit with a non-empty currentPassword whose newPassword
\* and newPassword2 differ, sets the mismatch message on the confirmation
\* field and issues no call.
C8_MismatchBlocksWhenValidated ==
    [][ /\ (lastOp'.op = "ResetSubmit" /\ reset.password # reset.passwordConfirm)
              => (net' = net /\ reset'.passwordConfirmError = MismatchReset)
        /\ (lastOp'.op = "EditSubmit" /\ edit.currentPassword # Empty
            /\ edit.newPassword # edit.newPassword2)
              => (net' = net /\ ~edit'.saving
                  /\ edit'.newPassword2Error = MismatchEdit) ]_vars

C8_Witness ==
    /\ lastOp.op = "ResetSubmit"
    /\ reset.password = P8a
    /\ reset.passwordConfirm = P8b
    /\ reset.passwordError = NULL
    /\ reset.passwordConfirmError = MismatchReset
    /\ net = << >>

\* C9: a submit with a format-invalid email sets the email error to "Please
\* enter a valid email" and issues no call, in the login form's email stage
\* (which it does not leave) and in the edit form.
C9_InvalidEmailBlocks ==
    [][ /\ (lastOp'.op = "LoginSubmit" /\ login.showEmailField
            /\ ~EmailValidityValid(login.email))
              => /\ login'.emailError = InvalidEmail
                 /\ login'.showEmailField
                 /\ net' = net
        /\ (lastOp'.op = "EditSubmit" /\ ~EmailValidityValid(edit.email))
              => /\ edit'.emailError = InvalidEmail
                 /\ ~edit'.saving
                 /\ net' = net ]_vars

C9_Witness ==
    /\ lastOp.op = "LoginSubmit"
    /\ login.showEmailField
    /\ login.email = Empty
    /\ login.emailError = InvalidEmail
    /\ net = << >>

\* C10: no adapter lets a failure escape: every call that completes hands
\* its submit handler a result.
C10_NoFailureEscapes == escaped = 0

ResponseOps == {"LoginResponse", "ResetResponse", "EditResponse"}

\* The step is a response handler that got a result without an error.
Succeeded(op) ==
    /\ lastOp'.op = op
    /\ ~lastOp'.response.threw
    /\ ~Truthy(lastOp'.response.error)

\* C11: once the edit form's remote call has completed, in whatever way, the
\* busy flag of the mounted form is clear again.
C11_SavingClearedAfterCompletion ==
    (page = "edit" /\ InFlight("edit") = 0) => ~edit.saving

\* C12: a successful submission of a mounted form leaves its submission
\* error cleared and triggers its completion action exactly once.
C12_SuccessClearsSubmitError ==
    [][ /\ (Succeeded("LoginResponse") /\ page = "login")
              => (~login'.hasSubmitError /\ nav' = nav + 1)
        /\ (Succeeded("ResetResponse") /\ page = "reset")
              => (reset'.submitError = NULL /\ nav' = nav + 1)
        /\ (Succeeded("EditResponse") /\ page = "edit")
              => (edit'.submitError = NULL /\ rendered' = rendered + 1
                  /\ closed' = closed + 1) ]_vars

\* C13: when the edit form's call returns a result with an error, the
\* handler changes saving and submitError only: every field value and field
\* error of the mounted form stays as it was.
C13_FailureKeepsFields ==
    [][ (lastOp'.op = "EditResponse" /\ ~lastOp'.response.threw
         /\ Truthy(lastOp'.response.error) /\ page = "edit")
          => /\ [edit' EXCEPT !.saving = edit.saving,
                              !.submitError = edit.submitError] = edit
             /\ ~edit'.saving
             /\ edit'.submitError = lastOp'.response.error
             /\ page' = page
             /\ rendered' = rendered
             /\ closed' = closed ]_vars

C13_Witness ==
    /\ lastOp.op = "EditResponse"
    /\ Truthy(lastOp.response.error)
    /\ page = "edit"
    /\ edit.submitError = lastOp.response.error
    /\ ~edit.saving
    /\ edit.firstName = <<"A">>
    /\ edit.currentPassword = P8a
    /\ edit.newPassword = P8a
    /\ edit.newPassword2 = P8a

\* C14: a response that arrives after its form was closed or navigated away
\* from has no effect: no navigation, no close(), no server re-render, no
\* state change.
C14_LateResponseDiscarded ==
    [][ (lastOp'.op \in ResponseOps /\ page = "account")
          => /\ nav' = nav
             /\ rendered' = rendered
             /\ closed' = closed
             /\ escaped' = escaped
             /\ login' = login
             /\ reset' = reset
             /\ edit' = edit ]_vars

PassesGuards(sv) ==
    /\ sv.request.method \in {"PATCH", "DELETE"}
    /\ sv.sessionAvailable
    /\ sv.customerAccessToken

\* C16: the api handler sends the customer-update mutation only when the
\* method is PATCH or DELETE, session storage is available and the session
\* holds a customerAccessToken; it answers 405 with Allow: PATCH,DELETE, then
\* 400, then 401 for the first guard that fails, and a rejected request
\* causes no mutation and no read of the body.
C16_MutationOnlyAfterGuards ==
    served.phase = "done" =>
        /\ PassesGuards(served) <=> Len(served.mutations) = 1
        /\ ~PassesGuards(served) => (served.mutations = << >> /\ ~served.bodyRead)
        /\ served.request.method \notin {"PATCH", "DELETE"}
              => (served.response.status = 405 /\ served.allow = "PATCH,DELETE")
        /\ (served.request.method \in {"PATCH", "DELETE"} /\ ~served.sessionAvailable)
              => served.response.status = 400
        /\ (served.request.method \in {"PATCH", "DELETE"} /\ served.sessionAvailable
            /\ ~served.customerAccessToken)
              => served.response.status = 401

C16_Witness ==
    /\ served.phase = "done"
    /\ served.request.method = "PATCH"
    /\ served.sessionAvailable
    /\ ~served.customerAccessToken
    /\ served.request.body.newPassword = P8a
    /\ served.response.status = 401
    /\ served.mutations = << >>
    /\ ~served.bodyRead

\* C17: the customer update the api handler sends holds exactly the fields
\* among email, phone, firstName, lastName and password (from newPassword)
\* whose request value is non-empty, with that value; currentPassword plays
\* no part.
C17_CustomerHoldsNonEmptyFields ==
    (served.phase = "done" /\ served.mutations # << >>) =>
        LET body == served.request.body
            customer == served.mutations[1].customer
        IN /\ "email" \in DOMAIN customer <=> body.email # Empty
           /\ "phone" \in DOMAIN customer <=> body.phone # Empty
           /\ "firstName" \in DOMAIN customer <=> body.firstName # Empty
           /\ "lastName" \in DOMAIN customer <=> body.lastName # Empty
           /\ "password" \in DOMAIN customer <=> body.newPassword # Empty
           /\ DOMAIN customer \subseteq
                {"email", "phone", "firstName", "lastName", "password"}
           /\ "email" \in DOMAIN customer => customer.email = body.email
           /\ "phone" \in DOMAIN customer => customer.phone = body.phone
           /\ "firstName" \in DOMAIN customer => customer.firstName = body.firstName
           /\ "lastName" \in DOMAIN customer => customer.lastName = body.lastName
           /\ "password" \in DOMAIN customer => customer.password = body.newPassword

C17_Witness ==
    /\ served.phase = "done"
    /\ Len(served.mutations) = 1
    /\ served.request.body.currentPassword = Empty
    /\ served.request.body.newPassword = P8a
    /\ served.request.body.email = Empty
    /\ DOMAIN served.mutations[1].customer = {"password"}
    /\ served.mutations[1].customer.password = P8a

\* C18: while the login form shows the password stage its email is
\* format-valid and does not change, and every login call in flight carries
\* a format-valid email.
C18_PasswordStageEmailValid ==
    /\ [](/\ ~login.showEmailField => EmailValidityValid(login.email)
          /\ \A i \in 1..Len(net) :
                net[i].form = "login" => EmailValidityValid(net[i].body.email))
    /\ [][(~login.showEmailField /\ ~login'.showEmailField)
             => login'.email = login.email]_vars

C18_Witness ==
    /\ ~login.showEmailField
    /\ login.email = <<"b", "@", "a">>
    /\ Len(net) = 2
    /\ net[1].body.email = <<"a", "@", "b">>
    /\ net[2].body.email = <<"b", "@", "a">>
    /\ lastOp.op = "onChange"

====
